---- MODULE Spec2Model ----
(***************************************************************************)
(* ByteCode: a cursor over a borrowed byte slice (src/src/core.rs,         *)
(* src/src/util.rs).                                                       *)
(*                                                                         *)
(* The struct holds `inner: &[u8]`, a fat pointer (address, length) into   *)
(* the caller's buffer, and `pos: usize`, the number of bytes consumed.    *)
(* `+=` and `-=` rebase the fat pointer with raw pointer arithmetic, so    *)
(* the model keeps the pointer as an offset into the buffer and reads the  *)
(* bytes through it: that the view is the right suffix of the buffer is    *)
(* something to check, not something the model assumes.                    *)
(*                                                                         *)
(* A panic unwinds before the operation has assigned anything; the model   *)
(* records it as the outcome of the call and lets the caller (a test       *)
(* harness, catch_unwind) go on using the value.                           *)
(***************************************************************************)
EXTENDS Integers, Sequences, FiniteSets

\* Longest buffer a cursor is constructed over.
MaxLen == 5

\* Largest count / index handed to an operation (beyond every buffer length).
MaxCount == 6

\* Longest pattern handed to starts_with.
MaxPat == 2

\* Width of usize in bits.  It depends on the target (16, 32 or 64); the
\* model takes the narrowest, which the checker's integers can hold.
WordBits == 16

UsizeModulus == 2 ^ WordBits
UsizeMax == UsizeModulus - 1

\* Byte values the buffers and patterns are built from.
ByteVals == {1, 255}

VARIABLES
    mem,    \* the caller's buffer the slice was borrowed from (never written)
    self,   \* the ByteCode value: [inner |-> [ptr, len], pos]
    last    \* the last call: its name, argument, receiver before it, outcome

vars == <<mem, self, last>>

RECURSIVE SeqsOfLen(_)
SeqsOfLen(n) ==
    IF n = 0 THEN {<<>>}
    ELSE {Append(s, b) : s \in SeqsOfLen(n - 1), b \in ByteVals}

Buffers == UNION {SeqsOfLen(n) : n \in 0..MaxLen}
Patterns == UNION {SeqsOfLen(n) : n \in 0..MaxPat}
Counts == 0..MaxCount

\* Counts handed to the moving and reading operations: the small ones and the
\* two largest values of a usize.
WordCounts == Counts \cup {UsizeMax - 1, UsizeMax}

\* usize `+` and `-` as a build without overflow checks computes them; a
\* build with overflow checks panics where these wrap.
WrappingAdd(x, y) == (x + y) % UsizeModulus
WrappingSub(x, y) == (x - y) % UsizeModulus

\* What a read through a pointer outside the borrowed allocation yields: no
\* byte value.  The unsafe blocks of `+=` and `-=` are sound only if no
\* reachable state performs such a read (InnerInAllocation below).
Poison == -1

\* The byte at 0-based address a of the caller's buffer.
Load(a) == IF a >= 0 /\ a < Len(mem) THEN mem[a + 1] ELSE Poison

\* The bytes a fat pointer denotes: len bytes starting at address ptr.
Deref(sl) == [i \in 1..sl.len |-> Load(sl.ptr + i - 1)]

\* Outcomes of a call: the receiver after it, whether it panicked, its value.
Unit == <<>>
Return(s, v) == [self |-> s, panicked |-> FALSE, val |-> v]
Panic(s) == [self |-> s, panicked |-> TRUE, val |-> Unit]

----------------------------------------------------------------------------
\* core.rs

\* new that starts with the count at the slice's length.
new_pos_at_len(slice_len) == [inner |-> [ptr |-> 0, len |-> slice_len], pos |-> slice_len]

new(slice_len) == [inner |-> [ptr |-> 0, len |-> slice_len], pos |-> 0]

as_slice(s) == s.inner

len(s) == WrappingAdd(s.inner.len, s.pos)

pos(s) == s.pos

\* is_end comparing the count with the length of what remains.
is_end_remaining(s) == s.pos = s.inner.len

is_end(s) == s.pos = len(s)

\* add_assign without `self.pos += rhs`: the view moves, the count does not.
add_assign_keeps_pos(s, rhs) ==
    IF rhs > s.inner.len
    THEN Panic(s)
    ELSE Return([inner |-> [ptr |-> s.inner.ptr + rhs, len |-> WrappingSub(s.inner.len, rhs)],
                 pos |-> s.pos], Unit)

\* add_assign with the check `rhs >= self.inner.len()`: consuming everything
\* that remains is refused.
add_assign_strict(s, rhs) ==
    IF rhs >= s.inner.len
    THEN Panic(s)
    ELSE Return([inner |-> [ptr |-> s.inner.ptr + rhs, len |-> WrappingSub(s.inner.len, rhs)],
                 pos |-> WrappingAdd(s.pos, rhs)], Unit)

\* add_assign whose check adds first: `self.pos + rhs > self.len()`.
add_assign_sum_check(s, rhs) ==
    IF WrappingAdd(s.pos, rhs) > WrappingAdd(s.inner.len, s.pos)
    THEN Panic(s)
    ELSE Return([inner |-> [ptr |-> s.inner.ptr + rhs, len |-> WrappingSub(s.inner.len, rhs)],
                 pos |-> WrappingAdd(s.pos, rhs)], Unit)

add_assign(s, rhs) ==
    IF rhs > s.inner.len
    THEN Panic(s)
    ELSE Return([inner |-> [ptr |-> s.inner.ptr + rhs, len |-> WrappingSub(s.inner.len, rhs)],
                 pos |-> WrappingAdd(s.pos, rhs)], Unit)

\* sub_assign that lengthens the slice without moving its pointer back.
sub_assign_no_rebase(s, rhs) ==
    IF rhs > s.pos
    THEN Panic(s)
    ELSE Return([inner |-> [ptr |-> s.inner.ptr, len |-> WrappingAdd(s.inner.len, rhs)],
                 pos |-> WrappingSub(s.pos, rhs)], Unit)

\* sub_assign with the check `rhs >= self.pos`: going back to the start is
\* refused.
sub_assign_strict(s, rhs) ==
    IF rhs >= s.pos
    THEN Panic(s)
    ELSE Return([inner |-> [ptr |-> s.inner.ptr - rhs, len |-> WrappingAdd(s.inner.len, rhs)],
                 pos |-> WrappingSub(s.pos, rhs)], Unit)

sub_assign(s, rhs) ==
    IF rhs > s.pos
    THEN Panic(s)
    ELSE Return([inner |-> [ptr |-> s.inner.ptr - rhs, len |-> WrappingAdd(s.inner.len, rhs)],
                 pos |-> WrappingSub(s.pos, rhs)], Unit)

\* reset that zeroes the count and leaves the slice where it is.
reset_pos_only(s) == Return([inner |-> s.inner, pos |-> 0], Unit)

reset(s) == sub_assign(s, s.pos)

\* The slice indices handed to Index::index: a position or one of the ranges.
IndexArgs ==
    [kind : {"at", "from", "to", "toinc"}, a : Counts, b : {0}]
        \cup [kind : {"range", "inc"}, a : Counts, b : Counts]
        \cup [kind : {"full"}, a : {0}, b : {0}]

\* The half-open range [lo, hi) of the slice an index selects, or none when
\* the slice's own bounds check panics.
IndexBounds(i, n) ==
    CASE i.kind = "at"    -> IF i.a < n THEN <<i.a, i.a + 1>> ELSE <<>>
      [] i.kind = "range" -> IF i.a <= i.b /\ i.b <= n THEN <<i.a, i.b>> ELSE <<>>
      [] i.kind = "from"  -> IF i.a <= n THEN <<i.a, n>> ELSE <<>>
      [] i.kind = "to"    -> IF i.a <= n THEN <<0, i.a>> ELSE <<>>
      [] i.kind = "inc"   -> IF i.a <= i.b + 1 /\ i.b + 1 <= n THEN <<i.a, i.b + 1>> ELSE <<>>
      [] i.kind = "toinc" -> IF i.a + 1 <= n THEN <<0, i.a + 1>> ELSE <<>>
      [] i.kind = "full"  -> <<0, n>>

\* index into the whole buffer instead of the unread view.
index_from_start(s, i) ==
    LET r == IndexBounds(i, s.inner.len + s.pos) IN
    IF r = <<>>
    THEN Panic(s)
    ELSE LET sub == Deref([ptr |-> s.inner.ptr - s.pos + r[1], len |-> r[2] - r[1]]) IN
         Return(s, IF i.kind = "at" THEN sub[1] ELSE sub)

index(s, i) ==
    LET r == IndexBounds(i, s.inner.len) IN
    IF r = <<>>
    THEN Panic(s)
    ELSE LET sub == Deref([ptr |-> s.inner.ptr + r[1], len |-> r[2] - r[1]]) IN
         Return(s, IF i.kind = "at" THEN sub[1] ELSE sub)

----------------------------------------------------------------------------
\* util.rs

\* peek with the check `num >= self.inner.len()`.
peek_strict(s, num) ==
    IF num >= s.inner.len
    THEN Panic(s)
    ELSE index(s, [kind |-> "range", a |-> 0, b |-> num])

\* peek that also moves the cursor past what it returns.
peek_consuming(s, num) ==
    IF num > s.inner.len
    THEN Panic(s)
    ELSE Return([inner |-> [ptr |-> s.inner.ptr + num, len |-> s.inner.len - num],
                 pos |-> s.pos + num],
                index(s, [kind |-> "range", a |-> 0, b |-> num]).val)

\* peek with `&self[0..=num]`.
peek_inclusive(s, num) ==
    IF num > s.inner.len
    THEN Panic(s)
    ELSE index(s, [kind |-> "inc", a |-> 0, b |-> num])

\* peek without its check, clamping to what remains.
peek_truncating(s, num) ==
    index(s, [kind |-> "range", a |-> 0,
              b |-> IF num > s.inner.len THEN s.inner.len ELSE num])

peek(s, num) ==
    IF num > s.inner.len
    THEN Panic(s)
    ELSE index(s, [kind |-> "range", a |-> 0, b |-> num])

\* starts_with answering false for a pattern longer than what remains.
starts_with_graceful(s, v) ==
    IF Len(v) > s.inner.len
    THEN Return(s, FALSE)
    ELSE Return(s, peek(s, Len(v)).val = v)

starts_with(s, v) ==
    LET p == peek(s, Len(v)) IN
    IF p.panicked THEN Panic(s) ELSE Return(s, p.val = v)

\* next that moves two bytes.
next_by_two(s) == add_assign(s, 2)

\* next written as `*self -= 1`.
next_moves_back(s) == sub_assign(s, 1)

next(s) == add_assign(s, 1)

prev(s) == sub_assign(s, 1)

skip(s, num) == add_assign(s, num)

\* take that skips before it peeks.
take_skip_first(s, num) ==
    LET moved == skip(s, num) IN
    IF moved.panicked
    THEN Panic(s)
    ELSE LET result == peek(moved.self, num) IN
         IF result.panicked THEN Panic(moved.self) ELSE Return(moved.self, result.val)

\* take that consumes what remains before it reports the overrun.
take_partial(s, num) ==
    IF num > s.inner.len
    THEN Panic(skip(s, s.inner.len).self)
    ELSE Return(skip(s, num).self, peek(s, num).val)

take(s, num) ==
    LET result == peek(s, num) IN
    IF result.panicked
    THEN Panic(s)
    ELSE LET moved == skip(s, num) IN
         IF moved.panicked THEN Panic(moved.self) ELSE Return(moved.self, result.val)

\* u16::from_le_bytes.
u16_from_le_bytes(bytes) == bytes[2] * 256 + bytes[1]

\* u32::from_le_bytes, as <<high, low>>.
u32_from_le_bytes(bytes) == <<bytes[4] * 256 + bytes[3], bytes[2] * 256 + bytes[1]>>

\* u16::from_be_bytes: the first byte is the most significant.
u16_from_be_bytes(bytes) == bytes[1] * 256 + bytes[2]

\* u32::from_be_bytes.  The value is kept as its two 16-bit halves
\* <<high, low>>, i.e. high * 2^16 + low.
u32_from_be_bytes(bytes) == <<bytes[1] * 256 + bytes[2], bytes[3] * 256 + bytes[4]>>

take_into_u16(s) ==
    LET t == take(s, 2) IN
    IF t.panicked THEN Panic(t.self)
    ELSE IF Len(t.val) # 2 THEN Panic(t.self)
    ELSE Return(t.self, u16_from_be_bytes(t.val))

take_into_u32(s) ==
    LET t == take(s, 4) IN
    IF t.panicked THEN Panic(t.self)
    ELSE IF Len(t.val) # 4 THEN Panic(t.self)
    ELSE Return(t.self, u32_from_be_bytes(t.val))

----------------------------------------------------------------------------
\* The state machine: construction, then any sequence of calls.

NoArg == <<>>

Call(name, arg, r) ==
    /\ self' = r.self
    /\ last' = [op |-> name, arg |-> arg, pre |-> self,
                panicked |-> r.panicked, val |-> r.val]
    /\ UNCHANGED mem

Init ==
    /\ mem \in Buffers
    /\ self = new(Len(mem))
    /\ last = [op |-> "new", arg |-> NoArg, pre |-> new(Len(mem)),
               panicked |-> FALSE, val |-> Unit]

AsSlice == Call("as_slice", NoArg, Return(self, Deref(as_slice(self))))
LenOp == Call("len", NoArg, Return(self, len(self)))
PosOp == Call("pos", NoArg, Return(self, pos(self)))
IsEnd == Call("is_end", NoArg, Return(self, is_end(self)))
Reset == Call("reset", NoArg, reset(self))
AddAssign == \E rhs \in WordCounts : Call("add_assign", rhs, add_assign(self, rhs))
SubAssign == \E rhs \in WordCounts : Call("sub_assign", rhs, sub_assign(self, rhs))
Index == \E i \in IndexArgs : Call("index", i, index(self, i))
Peek == \E num \in WordCounts : Call("peek", num, peek(self, num))
StartsWith == \E v \in Patterns : Call("starts_with", v, starts_with(self, v))
NextOp == Call("next", NoArg, next(self))
Prev == Call("prev", NoArg, prev(self))
Skip == \E num \in WordCounts : Call("skip", num, skip(self, num))
Take == \E num \in WordCounts : Call("take", num, take(self, num))
TakeIntoU16 == Call("take_into_u16", NoArg, take_into_u16(self))
TakeIntoU32 == Call("take_into_u32", NoArg, take_into_u32(self))

Next ==
    \/ AsSlice \/ LenOp \/ PosOp \/ IsEnd \/ Reset
    \/ AddAssign \/ SubAssign \/ Index
    \/ Peek \/ StartsWith \/ NextOp \/ Prev \/ Skip
    \/ Take \/ TakeIntoU16 \/ TakeIntoU32

Spec == Init /\ [][Next]_vars

----------------------------------------------------------------------------
\* Vocabulary of the properties.

\* total_length: the length of the byte sequence given at construction.
TotalLength == Len(mem)

\* Remaining unread length of a cursor value: total_length - position.
Remaining(s) == TotalLength - s.pos

\* original[from .. to), 0-based and half-open as in the source.
Original(from, to) == SubSeq(mem, from + 1, to)

\* The unread view of a cursor value, as bytes.
View(s) == Deref(as_slice(s))

\* The last call was `name` and it returned / it panicked.
Returned(names) == last.op \in names /\ ~last.panicked
Failed(names) == last.op \in names /\ last.panicked

\* The last call left the cursor value exactly as it was.
Untouched == self = last.pre

\* Every fat pointer the cursor holds stays inside the borrowed buffer, so
\* the raw pointer arithmetic of `+=` / `-=` never leaves the allocation.
InnerInAllocation ==
    /\ self.inner.ptr >= 0
    /\ self.inner.len >= 0
    /\ self.inner.ptr + self.inner.len <= Len(mem)

----------------------------------------------------------------------------
\* C1: in every reachable state, after any sequence of cursor operations
\* (failed ones included), 0 <= position <= total_length and len() is still
\* the length of the byte sequence given at construction.
C1_PositionWithinLength ==
    /\ 0 <= pos(self)
    /\ pos(self) <= TotalLength
    /\ len(self) = TotalLength

\* A cursor strictly inside a buffer, right after a call that panicked.
C1_Witness ==
    /\ last.panicked
    /\ 0 < self.pos
    /\ self.pos < TotalLength

\* C2: in every reachable state the unread view (as_slice) is the suffix of
\* the construction buffer starting at offset position: total_length -
\* position bytes, the i-th being original[position + i].
C2_ViewIsSuffix ==
    /\ Len(View(self)) = TotalLength - self.pos
    /\ \A i \in 0..(Len(View(self)) - 1) : View(self)[i + 1] = mem[self.pos + i + 1]
    /\ View(self) = Original(self.pos, TotalLength)

\* A retreat that followed an advance and stopped strictly inside the buffer.
C2_Witness ==
    /\ Returned({"sub_assign"})
    /\ last.arg > 0
    /\ 0 < self.pos
    /\ self.pos < TotalLength

\* C3: advance(n) (`+=` n, skip(n)) succeeds exactly when n <= remaining
\* unread length and then increases position by n; when n > remaining it
\* panics and leaves position and view as they were.
C3_Advance ==
    last.op \in {"add_assign", "skip"} =>
        /\ ~last.panicked <=> last.arg <= Remaining(last.pre)
        /\ ~last.panicked => self.pos = last.pre.pos + last.arg
        /\ last.panicked => Untouched /\ View(self) = View(last.pre)

\* An advance by exactly the remaining length, from inside the buffer.
C3_Witness ==
    /\ Returned({"add_assign", "skip"})
    /\ last.arg = Remaining(last.pre)
    /\ last.arg > 0
    /\ last.pre.pos > 0

\* C4: retreat(n) (`-=` n) succeeds exactly when n <= position and then
\* decreases position by n and puts the n bytes consumed last back at the
\* front of the view; when n > position it panics and leaves position and
\* view as they were.
C4_Retreat ==
    last.op = "sub_assign" =>
        /\ ~last.panicked <=> last.arg <= last.pre.pos
        /\ ~last.panicked =>
              /\ self.pos = last.pre.pos - last.arg
              /\ View(self) =
                    Original(last.pre.pos - last.arg, last.pre.pos) \o View(last.pre)
        /\ last.panicked => Untouched /\ View(self) = View(last.pre)

\* A retreat by exactly the current position, with bytes still unread.
C4_Witness ==
    /\ Returned({"sub_assign"})
    /\ last.arg = last.pre.pos
    /\ last.arg > 1
    /\ Remaining(last.pre) > 0

\* C5: for n <= remaining unread length, peek(n) returns the n bytes
\* original[position .. position + n] in order and leaves position and view
\* as they were.
C5_PeekReturnsNext ==
    (last.op = "peek" /\ last.arg <= Remaining(last.pre)) =>
        /\ ~last.panicked
        /\ last.val = Original(last.pre.pos, last.pre.pos + last.arg)
        /\ Len(last.val) = last.arg
        /\ Untouched
        /\ View(self) = View(last.pre)

\* A peek of several bytes, not all that remain, after some were consumed.
C5_Witness ==
    /\ Returned({"peek"})
    /\ last.arg > 1
    /\ last.arg < Remaining(last.pre)
    /\ last.pre.pos > 0

\* C6: peek(n) with n greater than the remaining unread length panics (it
\* returns no truncated result) and does not change position.
C6_PeekOutOfBounds ==
    (last.op = "peek" /\ last.arg > Remaining(last.pre)) =>
        /\ last.panicked
        /\ self.pos = last.pre.pos
        /\ Untouched

\* A peek one byte past the end while bytes remain.
C6_Witness ==
    /\ Failed({"peek"})
    /\ last.arg = Remaining(last.pre) + 1
    /\ Remaining(last.pre) > 0
    /\ last.pre.pos > 0

\* C7: for n <= remaining unread length, take(n) returns the bytes peek(n)
\* returns in that state and leaves the cursor as peek(n) followed by
\* advance(n) does: position + n, view shortened by n.
C7_TakeIsPeekThenAdvance ==
    (last.op = "take" /\ last.arg <= Remaining(last.pre)) =>
        LET p == peek(last.pre, last.arg)
            a == add_assign(p.self, last.arg)
        IN  /\ ~last.panicked
            /\ ~p.panicked
            /\ ~a.panicked
            /\ last.val = p.val
            /\ self = a.self
            /\ self.pos = last.pre.pos + last.arg
            /\ Len(View(self)) = Len(View(last.pre)) - last.arg
            /\ last.val \o View(self) = View(last.pre)

\* A take of several bytes, not all that remain, after some were consumed.
C7_Witness ==
    /\ Returned({"take"})
    /\ last.arg > 1
    /\ last.arg < Remaining(last.pre)
    /\ last.pre.pos > 0

\* C8: a consuming read that cannot be satisfied is atomic: take(n) with
\* n > remaining, take_into_u16 with fewer than 2 bytes remaining and
\* take_into_u32 with fewer than 4 each panic and leave position and view
\* as they were.
C8_FailedTakeIsAtomic ==
    LET short ==
            \/ last.op = "take" /\ last.arg > Remaining(last.pre)
            \/ last.op = "take_into_u16" /\ Remaining(last.pre) < 2
            \/ last.op = "take_into_u32" /\ Remaining(last.pre) < 4
    IN  short =>
            /\ last.panicked
            /\ self.pos = last.pre.pos
            /\ Untouched
            /\ View(self) = View(last.pre)

\* take_into_u32 with three bytes left.
C8_Witness ==
    /\ Failed({"take_into_u32"})
    /\ Remaining(last.pre) = 3
    /\ Remaining(self) = 3

\* C9: with at least 2 bytes remaining, the next being b0, b1, take_into_u16
\* returns 256 * b0 + b1 and advances position by 2; it fails only when
\* fewer than 2 bytes remain.
C9_TakeIntoU16 ==
    last.op = "take_into_u16" =>
        /\ last.panicked <=> Remaining(last.pre) < 2
        /\ ~last.panicked =>
              LET b0 == mem[last.pre.pos + 1]
                  b1 == mem[last.pre.pos + 2]
              IN  /\ last.val = 256 * b0 + b1
                  /\ self.pos = last.pre.pos + 2

\* A decode of two different bytes after some were consumed.
C9_Witness ==
    /\ Returned({"take_into_u16"})
    /\ last.pre.pos > 0
    /\ mem[last.pre.pos + 1] # mem[last.pre.pos + 2]

\* C10: with at least 4 bytes remaining, the next being b0, b1, b2, b3,
\* take_into_u32 returns b0 * 2^24 + b1 * 2^16 + b2 * 2^8 + b3 and advances
\* position by 4.  The value is read off its 16-bit halves: it is
\* high * 2^16 + low with high = b0 * 2^8 + b1 and low = b2 * 2^8 + b3.
C10_TakeIntoU32 ==
    (last.op = "take_into_u32" /\ Remaining(last.pre) >= 4) =>
        LET b0 == mem[last.pre.pos + 1]
            b1 == mem[last.pre.pos + 2]
            b2 == mem[last.pre.pos + 3]
            b3 == mem[last.pre.pos + 4]
            high == last.val[1]
            low == last.val[2]
        IN  /\ ~last.panicked
            /\ high \in 0..65535 /\ low \in 0..65535
            /\ high \div 256 = b0 /\ high % 256 = b1
            /\ low \div 256 = b2 /\ low % 256 = b3
            /\ self.pos = last.pre.pos + 4

\* A decode of four bytes whose order matters, after one was consumed.
C10_Witness ==
    /\ Returned({"take_into_u32"})
    /\ last.pre.pos > 0
    /\ mem[last.pre.pos + 1] # mem[last.pre.pos + 4]
    /\ mem[last.pre.pos + 2] # mem[last.pre.pos + 3]

\* C11: from any reachable state, for n <= remaining unread length,
\* advance(n) followed by retreat(n) succeeds at both steps and restores the
\* prior position and the prior view.  Stated on the two steps: the advance
\* returns, and a retreat by the same n taken right after an advance that
\* returned brings back the cursor the advance started from.
C11_AdvanceThenRetreat ==
    [][ /\ (last'.op \in {"add_assign", "skip"} /\ last'.arg <= Remaining(self))
            => ~last'.panicked
        /\ (Returned({"add_assign", "skip"}) /\ last'.op = "sub_assign"
                /\ last'.arg = last.arg)
            => /\ ~last'.panicked
               /\ self' = last.pre
               /\ self'.pos = last.pre.pos
               /\ View(self') = View(last.pre)
               /\ Len(View(self')) = Len(View(last.pre)) ]_vars

\* An advance of several bytes from inside the buffer has returned; the
\* retreat by the same count is the next step.
C11_Witness ==
    /\ Returned({"add_assign", "skip"})
    /\ last.arg > 1
    /\ last.pre.pos > 0
    /\ Remaining(self) > 0

\* C12: reset() never fails, from position 0 and from the exhausted state
\* too, and after it position = 0 and the view is the whole byte sequence
\* given at construction.
C12_Reset ==
    last.op = "reset" =>
        /\ ~last.panicked
        /\ self.pos = 0
        /\ View(self) = mem
        /\ self = new(Len(mem))

\* A reset of an exhausted cursor.
C12_Witness ==
    /\ Returned({"reset"})
    /\ last.pre.pos = TotalLength
    /\ TotalLength > 1

\* C13: in every reachable state is_end() is true iff position =
\* total_length, i.e. iff the view is empty; so it is true after advance(L)
\* from the start of a buffer of length L and after a next() that reaches
\* the end, false after any retreat by n >= 1, and true right after
\* construction only when L = 0.
C13_IsEnd ==
    /\ is_end(self) <=> self.pos = TotalLength
    /\ is_end(self) <=> View(self) = <<>>
    /\ last.op = "is_end" => /\ ~last.panicked
                             /\ last.val = (last.pre.pos = TotalLength)
    /\ (Returned({"add_assign", "skip"}) /\ last.pre.pos = 0
            /\ last.arg = TotalLength) => is_end(self)
    /\ (Returned({"next"}) /\ self.pos = TotalLength) => is_end(self)
    /\ (Returned({"sub_assign"}) /\ last.arg >= 1) => ~is_end(self)
    /\ Returned({"prev"}) => ~is_end(self)
    /\ last.op = "new" => (is_end(self) <=> TotalLength = 0)

\* is_end() answered true on a cursor that consumed a whole buffer.
C13_Witness ==
    /\ Returned({"is_end"})
    /\ last.val = TRUE
    /\ TotalLength > 1

\* C14: starts_with(pattern) is true iff peek(len(pattern)) equals the
\* pattern byte for byte, at the current position; a pattern longer than
\* the remaining unread bytes makes it panic like peek, not return false;
\* the empty pattern gives true in every state.
C14_StartsWith ==
    last.op = "starts_with" =>
        LET n == Len(last.arg)
            p == peek(last.pre, n)
        IN  /\ last.panicked <=> n > Remaining(last.pre)
            /\ last.panicked <=> p.panicked
            /\ ~last.panicked =>
                  /\ last.val = (p.val = last.arg)
                  /\ last.val = (Original(last.pre.pos, last.pre.pos + n) = last.arg)
            /\ last.arg = <<>> => ~last.panicked /\ last.val = TRUE
            /\ Untouched

\* A pattern found at the current position that is not at the start of the
\* buffer.
C14_Witness ==
    /\ Returned({"starts_with"})
    /\ last.val = TRUE
    /\ Len(last.arg) = 2
    /\ last.pre.pos > 0
    /\ Original(0, 2) # last.arg

\* C15: indexed access is relative to the unread view: at position p, index
\* i gives original[p + i] and a range a..b, a..=b, a.., ..b gives the
\* matching bytes of original[p..]; it panics when an index is >= (a range
\* end is >) the remaining unread length, so consumed bytes cannot be
\* reached; position does not change.
C15_IndexIsRelative ==
    last.op = "index" =>
        LET i == last.arg
            p == last.pre.pos
            r == Remaining(last.pre)
            outside ==
                CASE i.kind = "at" -> i.a >= r
                  [] i.kind = "range" -> i.b > r
                  [] i.kind = "inc" -> i.b >= r
                  [] i.kind = "from" -> i.a > r
                  [] i.kind = "to" -> i.a > r
                  [] i.kind = "toinc" -> i.a >= r
                  [] i.kind = "full" -> FALSE
            expected ==
                CASE i.kind = "at" -> mem[p + i.a + 1]
                  [] i.kind = "range" -> Original(p + i.a, p + i.b)
                  [] i.kind = "inc" -> Original(p + i.a, p + i.b + 1)
                  [] i.kind = "from" -> Original(p + i.a, TotalLength)
                  [] i.kind = "to" -> Original(p, p + i.a)
                  [] i.kind = "toinc" -> Original(p, p + i.a + 1)
                  [] i.kind = "full" -> Original(p, TotalLength)
        IN  /\ outside => last.panicked
            /\ ~last.panicked => last.val = expected
            /\ (~outside /\ (i.kind \in {"range", "inc"} => i.a <= i.b))
                  => ~last.panicked
            /\ Untouched

\* An inclusive range inside the view of a cursor that consumed bytes.
C15_Witness ==
    /\ Returned({"index"})
    /\ last.arg.kind = "inc"
    /\ last.arg.a > 0
    /\ last.arg.b > last.arg.a
    /\ last.pre.pos > 0

\* C16: in every reachable state, the exhausted state and a cursor over an
\* empty buffer included, peek(0) and take(0) succeed, return the empty byte
\* sequence and leave position unchanged.
C16_ZeroCount ==
    /\ ~peek(self, 0).panicked
    /\ ~take(self, 0).panicked
    /\ (last.op \in {"peek", "take"} /\ last.arg = 0) =>
          /\ ~last.panicked
          /\ last.val = <<>>
          /\ self.pos = last.pre.pos
          /\ Untouched

\* take(0) on an exhausted cursor.
C16_Witness ==
    /\ Returned({"take"})
    /\ last.arg = 0
    /\ last.pre.pos = TotalLength
    /\ TotalLength > 0

\* C17: next() has the outcome and resulting state of advance(1), panicking
\* and changing nothing exactly when nothing remains; prev() has those of
\* retreat(1), panicking and changing nothing exactly when position is 0.
C17_NextPrev ==
    /\ last.op = "next" =>
          LET a == add_assign(last.pre, 1)
          IN  /\ last.panicked = a.panicked
              /\ self = a.self
              /\ last.panicked <=> Remaining(last.pre) = 0
              /\ last.panicked => Untouched
              /\ ~last.panicked => self.pos = last.pre.pos + 1
    /\ last.op = "prev" =>
          LET b == sub_assign(last.pre, 1)
          IN  /\ last.panicked = b.panicked
              /\ self = b.self
              /\ last.panicked <=> last.pre.pos = 0
              /\ last.panicked => Untouched
              /\ ~last.panicked => self.pos = last.pre.pos - 1

\* next() from inside the buffer that did not reach its end.
C17_Witness ==
    /\ Returned({"next"})
    /\ last.pre.pos > 0
    /\ Remaining(self) > 0

\* C18: construction from a byte sequence S, the empty one included, gives
\* position 0, a view equal to all of S and len() = length of S, and never
\* fails.
C18_New ==
    last.op = "new" =>
        /\ ~last.panicked
        /\ pos(self) = 0
        /\ View(self) = mem
        /\ len(self) = Len(mem)

\* A cursor just constructed over several bytes.
C18_Witness ==
    /\ last.op = "new"
    /\ Len(mem) > 1
    /\ self.pos = 0

\* C19: len(), pos(), is_end(), as_slice(), peek(n), starts_with(pattern)
\* and indexed access leave position and view unchanged, when they return
\* and when they panic, so the calls after them see the cursor the calls
\* before them left.
C19_ReadsLeaveCursor ==
    last.op \in {"len", "pos", "is_end", "as_slice", "peek", "starts_with", "index"} =>
        /\ Untouched
        /\ self.pos = last.pre.pos
        /\ View(self) = View(last.pre)

\* A peek that returned bytes from inside the buffer.
C19_Witness ==
    /\ Returned({"peek"})
    /\ last.arg > 0
    /\ last.pre.pos > 0
    /\ self.pos > 0

\* C20: across a step that is advance, skip, next, take, take_into_u16 or
\* take_into_u32, returning or panicking, position never decreases; position
\* decreases only in a retreat, prev or reset; and the cursor is a function
\* of (position, total_length), so that pair fixes the outcome of every
\* later operation on the same buffer.
C20_MonotonicUntilRetreat ==
    /\ [][ /\ last'.op \in {"add_assign", "skip", "next", "take",
                            "take_into_u16", "take_into_u32"}
               => self'.pos >= self.pos
           /\ self'.pos < self.pos
               => last'.op \in {"sub_assign", "prev", "reset"}
           /\ mem' = mem ]_vars
    /\ [](self = [inner |-> [ptr |-> self.pos, len |-> TotalLength - self.pos],
                  pos |-> self.pos])

\* prev() has moved a cursor back, to a place still inside the buffer.
C20_Witness ==
    /\ Returned({"prev"})
    /\ self.pos < last.pre.pos
    /\ self.pos > 0

\* C21: movements and consuming reads compose additively.  For a + b <=
\* remaining, advance(a) then advance(b) reaches the state advance(a + b)
\* reaches, and take(a) then take(b) return chunks whose concatenation is
\* what take(a + b) returns from the same start: no byte skipped, none
\* returned twice.  For a + b <= position, retreat(a) then retreat(b) reaches
\* the state retreat(a + b) reaches.  Stated on two consecutive calls, the
\* first of which started from last.pre.
C21_Additive ==
    [][ /\ (Returned({"add_assign", "skip"}) /\ last'.op \in {"add_assign", "skip"}
                /\ last.arg + last'.arg <= Remaining(last.pre))
            => LET both == add_assign(last.pre, last.arg + last'.arg)
               IN  /\ ~last'.panicked
                   /\ ~both.panicked
                   /\ self' = both.self
                   /\ self'.pos = last.pre.pos + last.arg + last'.arg
        /\ (Returned({"take"}) /\ last'.op = "take"
                /\ last.arg + last'.arg <= Remaining(last.pre))
            => LET both == take(last.pre, last.arg + last'.arg)
               IN  /\ ~last'.panicked
                   /\ ~both.panicked
                   /\ last.val \o last'.val = both.val
                   /\ both.val = Original(last.pre.pos,
                                          last.pre.pos + last.arg + last'.arg)
                   /\ self' = both.self
        /\ (Returned({"sub_assign"}) /\ last'.op = "sub_assign"
                /\ last.arg + last'.arg <= last.pre.pos)
            => LET both == sub_assign(last.pre, last.arg + last'.arg)
               IN  /\ ~last'.panicked
                   /\ ~both.panicked
                   /\ self' = both.self
                   /\ self'.pos = last.pre.pos - last.arg - last'.arg ]_vars

\* A take from inside the buffer has returned and left at least two bytes
\* for the take that follows.
C21_Witness ==
    /\ Returned({"take"})
    /\ last.arg > 0
    /\ last.pre.pos > 0
    /\ Remaining(self) >= 2

\* C22: no wrap-around of a usize gets past a bounds check.  For every
\* count, the two largest usize values included, advance / skip / peek /
\* take return iff the count is at most the remaining length and retreat
\* returns iff it is at most position; after a check that passed,
\* position + n <= total_length and position - n >= 0 as numbers, so the
\* additions and subtractions that follow do not wrap; and remaining +
\* position, hence len(), never exceeds the construction length.
C22_NoWrapPastCheck ==
    /\ self.inner.len + self.pos <= TotalLength
    /\ len(self) <= TotalLength
    /\ last.op \in {"add_assign", "skip", "peek", "take"} =>
          /\ ~last.panicked <=> last.arg <= last.pre.inner.len
          /\ ~last.panicked <=> last.arg <= Remaining(last.pre)
          /\ ~last.panicked => last.pre.pos + last.arg <= TotalLength
          /\ last.panicked => Untouched
    /\ Returned({"add_assign", "skip", "take"}) =>
          /\ self.pos = last.pre.pos + last.arg
          /\ self.inner.len = last.pre.inner.len - last.arg
    /\ last.op = "sub_assign" =>
          /\ ~last.panicked <=> last.arg <= last.pre.pos
          /\ ~last.panicked =>
                /\ last.pre.pos - last.arg >= 0
                /\ self.pos = last.pre.pos - last.arg
                /\ self.inner.len = last.pre.inner.len + last.arg
          /\ last.panicked => Untouched

\* An advance by the largest usize from position > 0, where position + n
\* wraps to a value inside the buffer: it panicked.
C22_Witness ==
    /\ Failed({"add_assign", "skip"})
    /\ last.arg = UsizeMax
    /\ last.pre.pos > 0
    /\ WrappingAdd(last.pre.pos, last.arg) < TotalLength

====
